---- MODULE Spec2Model ----
(***************************************************************************)
(* Model of src/firmament/scheduler_integration.cc: the main loop that     *)
(* polls the cluster inventory for nodes and pods, creates one resource    *)
(* per unknown node below a single top-level (coordinator) resource,       *)
(* registers it with the flow scheduler and binds every pod to the first   *)
(* node of the current node list.                                          *)
(***************************************************************************)
EXTENDS Integers, Sequences, FiniteSets, TLC

(* ------------------------------ bounds -------------------------------- *)
\* number of distinct resource identifiers (UUID values) in the model
NumIds == 3
\* longest node list one AllNodes() call returns
MaxNodes == 2
\* longest pod list one AllPods() call returns
MaxPods == 2
\* call counters stop counting here (every claim only needs 0, 1, "more")
CountCap == 2

(* ------------------------------ values -------------------------------- *)
RIDs == 1..NumIds
\* the value of toplevel_res_id before it is assigned
NoId == 0
\* textual spellings of one identifier that the parser maps to the same value
Spellings == {"lower", "upper"}
\* identifier strings: an identifier value together with its spelling
IdStrings == RIDs \X Spellings
Addrs == {"10.0.0.1", "10.0.0.2"}
Pods == {"p1", "p2"}
\* value of watch when no pod's bindings are counted
NoPod == "none"
\* the elements AllNodes() is taken to return, pairs (identifier string,
\* endpoint address): every identifier in its canonical spelling at the first
\* address and in its other spelling at the second address
NodePairs ==
  {<<<<id, "lower">>, "10.0.0.1">> : id \in RIDs} \cup
  {<<<<id, "upper">>, "10.0.0.2">> : id \in RIDs}

SeqUpTo(S, n) == UNION {[1..k -> S] : k \in 0..n}

VARIABLES
  pc,               \* position of main()
  resource_map_,    \* ResourceID -> resource status (descriptor fields)
  toplevel_res_id,  \* main's local of the same name
  fs,               \* resources the FlowScheduler has been handed via RegisterResource
  nodes,            \* this cycle's AllNodes() result
  ni,               \* position of the range-for over nodes
  rs,               \* key of the resource status just created, not yet registered
  pods,             \* this cycle's AllPods() result
  pi,               \* position of the range-for over pods
  calls,            \* history: calls issued in the current cycle, in order
  map0,             \* history: resource_map_ at the start of the current cycle
  seenIds,          \* history: identifiers that appeared in some node list
  createCalls,      \* history: CreateResourceForNode calls per identifier
  registerCalls,    \* history: RegisterResource calls per identifier
  topCalls,         \* history: CreateTopLevelResource calls per generated identifier
  watch,            \* history: the pod whose bindings are counted, or NoPod
  watchCycles,      \* history: cycles with a non-empty node list that listed it
  watchOccs,        \* history: its occurrences in the pod lists of those cycles
  watchBinds        \* history: BindPodToNode calls issued for it

watchVars == <<watch, watchCycles, watchOccs, watchBinds>>

vars == <<pc, resource_map_, toplevel_res_id, fs, nodes, ni, rs, pods, pi,
          calls, map0, seenIds, createCalls, registerCalls, topCalls,
          watchVars>>

(* -------------------------- library helpers --------------------------- *)
\* firmament::to_string(ResourceID_t): the canonical spelling
to_string(id) == <<id, "lower">>

\* firmament::ResourceIDFromString: parses either spelling to the value
ResourceIDFromString(str) == str[1]

\* firmament::GenerateResourceID(): any identifier value
GenerateResourceID == RIDs

\* variant: the membership test always answers "present"
ContainsKeyAlways(m, k) == TRUE

\* variant: the membership test only looks at machine entries
ContainsKeyMachinesOnly(m, k) ==
  k \in DOMAIN m /\ m[k].type = "RESOURCE_MACHINE"

\* variant: the membership test always answers "absent"
ContainsKeyNever(m, k) == FALSE

ContainsKey(m, k) == k \in DOMAIN m

\* variant: an existing key is overwritten and the insert reports success
InsertOverwrite(m, k, v) ==
  [ok |-> TRUE, map |-> (k :> v) @@ m]

\* inserts only when the key is absent and reports whether it inserted
InsertIfNotPresent(m, k, v) ==
  IF k \in DOMAIN m THEN [ok |-> FALSE, map |-> m]
                    ELSE [ok |-> TRUE, map |-> (k :> v) @@ m]

Bump(f, id) == [f EXCEPT ![id] = IF @ < CountCap THEN @ + 1 ELSE @]

\* a call counter advanced by n, stopping at CountCap
SatAdd(c, n) == IF c + n < CountCap THEN c + n ELSE CountCap

\* number of positions of the list ps that hold p
Occurrences(ps, p) == Cardinality({i \in 1..Len(ps) : ps[i] = p})

Call(op, id, pod, addr) == [op |-> op, id |-> id, pod |-> pod, addr |-> addr]

(* ------------------------- resource creation -------------------------- *)
\* the resource status built by CreateTopLevelResource: no state, no parent
TopLevelStatus(res_id) ==
  [uuid |-> to_string(res_id), type |-> "RESOURCE_COORDINATOR",
   state |-> "UNSET", parent_id |-> <<>>]

\* result of CreateTopLevelResource for a generated id: ok = FALSE is the
\* failed CHECK
CreateTopLevelResource(m, res_id) ==
  InsertIfNotPresent(m, res_id, TopLevelStatus(res_id))

\* variant: the machine is typed like the top-level resource
MachineStatusAsCoordinator(node_id, parent_id) ==
  [uuid |-> to_string(node_id), type |-> "RESOURCE_COORDINATOR",
   state |-> "RESOURCE_IDLE", parent_id |-> to_string(parent_id)]

\* variant: the two identifiers are swapped when the parent is recorded
MachineStatusSelfParent(node_id, parent_id) ==
  [uuid |-> to_string(node_id), type |-> "RESOURCE_MACHINE",
   state |-> "RESOURCE_IDLE", parent_id |-> to_string(node_id)]

\* variant: set_state is missing
MachineStatusNoState(node_id, parent_id) ==
  [uuid |-> to_string(node_id), type |-> "RESOURCE_MACHINE",
   state |-> "UNSET", parent_id |-> to_string(parent_id)]

\* the resource status built by CreateResourceForNode
MachineStatus(node_id, parent_id) ==
  [uuid |-> to_string(node_id), type |-> "RESOURCE_MACHINE",
   state |-> "RESOURCE_IDLE", parent_id |-> to_string(parent_id)]

\* result of CreateResourceForNode: ok = FALSE is the failed CHECK
CreateResourceForNode(m, node_id, parent_id) ==
  InsertIfNotPresent(m, node_id, MachineStatus(node_id, parent_id))

(* ------------------------------- Init --------------------------------- *)
\* process start: resource_map_ has just been reset to an empty map
InitMain ==
  /\ pc = "setup"
  /\ resource_map_ = <<>>
  /\ toplevel_res_id = NoId
  /\ fs = {}
  /\ nodes = <<>>
  /\ ni = 1
  /\ rs = NoId
  /\ pods = <<>>
  /\ pi = 1
  /\ calls = <<>>
  /\ map0 = <<>>
  /\ seenIds = {}
  /\ createCalls = [id \in RIDs |-> 0]
  /\ registerCalls = [id \in RIDs |-> 0]
  /\ topCalls = [id \in RIDs |-> 0]
  /\ watchCycles = 0
  /\ watchOccs = 0
  /\ watchBinds = 0

\* process start, no pod's bindings counted
Init == InitMain /\ watch = NoPod

\* process start, the bindings of one pod counted over the whole run
InitWatch == InitMain /\ watch \in Pods

(* ------------------------------ actions ------------------------------- *)
\* one-time setup: CreateTopLevelResource, toplevel_res_id, scheduler
Setup ==
  /\ pc = "setup"
  /\ \E res_id \in GenerateResourceID :
       LET r == CreateTopLevelResource(resource_map_, res_id) IN
         /\ resource_map_' = r.map
         /\ map0' = r.map
         /\ topCalls' = Bump(topCalls, res_id)
         /\ IF r.ok
              THEN /\ toplevel_res_id' =
                        ResourceIDFromString(r.map[res_id].uuid)
                   /\ pc' = "poll_nodes"
              ELSE /\ toplevel_res_id' = toplevel_res_id
                   /\ pc' = "aborted"
  /\ UNCHANGED <<fs, nodes, ni, rs, pods, pi, calls, seenIds,
                 createCalls, registerCalls>>
  /\ UNCHANGED watchVars

\* where the node loop goes after the element at position i
AfterNode(i) == IF i < Len(nodes) THEN "node_loop" ELSE "poll_pods"

\* variant: an empty node list is treated as a fatal error
PollNodesAbortOnEmpty ==
  /\ pc = "poll_nodes"
  /\ \E ns \in SeqUpTo(NodePairs, MaxNodes) :
       /\ nodes' = ns
       /\ seenIds' = seenIds \cup
                       {ResourceIDFromString(ns[i][1]) : i \in 1..Len(ns)}
       /\ pc' = IF ns # <<>> THEN "node_loop" ELSE "aborted"
  /\ ni' = 1
  /\ UNCHANGED <<resource_map_, toplevel_res_id, fs, rs, pods, pi, calls,
                 map0, createCalls, registerCalls, topCalls>>
  /\ UNCHANGED watchVars

\* nodes = api_client.AllNodes(); if (!nodes.empty()) for (...)
PollNodes ==
  /\ pc = "poll_nodes"
  /\ \E ns \in SeqUpTo(NodePairs, MaxNodes) :
       /\ nodes' = ns
       /\ seenIds' = seenIds \cup
                       {ResourceIDFromString(ns[i][1]) : i \in 1..Len(ns)}
       /\ pc' = IF ns # <<>> THEN "node_loop" ELSE "poll_pods"
  /\ ni' = 1
  /\ UNCHANGED <<resource_map_, toplevel_res_id, fs, rs, pods, pi, calls,
                 map0, createCalls, registerCalls, topCalls>>
  /\ UNCHANGED watchVars

\* variant: a known node's entry is rebuilt and stored again
NodeKnownUpsert ==
  /\ pc = "node_loop"
  /\ LET rid == ResourceIDFromString(nodes[ni][1]) IN
       /\ ContainsKey(resource_map_, rid)
       /\ resource_map_' =
            [resource_map_ EXCEPT
               ![rid] = [uuid |-> to_string(rid), type |-> "RESOURCE_MACHINE",
                         state |-> "RESOURCE_IDLE",
                         parent_id |-> to_string(toplevel_res_id)]]
  /\ pc' = AfterNode(ni)
  /\ ni' = ni + 1
  /\ UNCHANGED <<toplevel_res_id, fs, nodes, rs, pods, pi,
                 calls, map0, seenIds, createCalls, registerCalls, topCalls>>
  /\ UNCHANGED watchVars

\* loop body for a node whose identifier is already a key: nothing happens
NodeKnown ==
  /\ pc = "node_loop"
  /\ ContainsKey(resource_map_, ResourceIDFromString(nodes[ni][1]))
  /\ pc' = AfterNode(ni)
  /\ ni' = ni + 1
  /\ UNCHANGED <<resource_map_, toplevel_res_id, fs, nodes, rs, pods, pi,
                 calls, map0, seenIds, createCalls, registerCalls, topCalls>>
  /\ UNCHANGED watchVars

\* loop body for an unknown node, first half: CreateResourceForNode
NodeNew ==
  /\ pc = "node_loop"
  /\ LET rid == ResourceIDFromString(nodes[ni][1])
         r == CreateResourceForNode(resource_map_, rid, toplevel_res_id)
     IN /\ ~ContainsKey(resource_map_, rid)
        /\ resource_map_' = r.map
        /\ createCalls' = Bump(createCalls, rid)
        /\ calls' = Append(calls, Call("Create", rid, "", ""))
        /\ IF r.ok THEN pc' = "register" /\ rs' = rid
                   ELSE pc' = "aborted" /\ rs' = rs
  /\ UNCHANGED <<toplevel_res_id, fs, nodes, ni, pods, pi, map0, seenIds,
                 registerCalls, topCalls>>
  /\ UNCHANGED watchVars

\* variant: the scheduler is not handed the new resource
RegisterForget ==
  /\ pc = "register"
  /\ rs' = NoId
  /\ pc' = AfterNode(ni)
  /\ ni' = ni + 1
  /\ UNCHANGED <<resource_map_, toplevel_res_id, fs, nodes, pods, pi, map0,
                 seenIds, createCalls, registerCalls, calls, topCalls>>
  /\ UNCHANGED watchVars

\* loop body for an unknown node, second half: fs.RegisterResource(rs...)
Register ==
  /\ pc = "register"
  /\ fs' = fs \cup {rs}
  /\ registerCalls' = Bump(registerCalls, rs)
  /\ calls' = Append(calls, Call("Register", rs, "", ""))
  /\ rs' = NoId
  /\ pc' = AfterNode(ni)
  /\ ni' = ni + 1
  /\ UNCHANGED <<resource_map_, toplevel_res_id, nodes, pods, pi, map0,
                 seenIds, createCalls, topCalls>>
  /\ UNCHANGED watchVars

\* history: the pod list ps has been returned in the current cycle
ListedFor(ps) ==
  /\ watch' = watch
  /\ watchBinds' = watchBinds
  /\ IF nodes # <<>> /\ Occurrences(ps, watch) > 0
       THEN /\ watchCycles' = SatAdd(watchCycles, 1)
            /\ watchOccs' = SatAdd(watchOccs, Occurrences(ps, watch))
       ELSE UNCHANGED <<watchCycles, watchOccs>>

\* history: one BindPodToNode call has been issued for pod p
BoundFor(p) ==
  /\ watchBinds' = (IF p = watch THEN SatAdd(watchBinds, 1) ELSE watchBinds)
  /\ UNCHANGED <<watch, watchCycles, watchOccs>>

\* variant: the pod list is fetched but the loop over it is left out
PollPodsDetached ==
  /\ pc = "poll_pods"
  /\ \E ps \in SeqUpTo(Pods, MaxPods) :
       /\ pods' = ps
       /\ pc' = "sleep"
       /\ ListedFor(ps)
  /\ pi' = 1
  /\ UNCHANGED <<resource_map_, toplevel_res_id, fs, nodes, ni, rs, calls,
                 map0, seenIds, createCalls, registerCalls, topCalls>>

\* pods = api_client.AllPods(); if (!pods.empty()) for (...)
PollPods ==
  /\ pc = "poll_pods"
  /\ \E ps \in SeqUpTo(Pods, MaxPods) :
       /\ pods' = ps
       /\ pc' = IF ps # <<>> THEN "pod_loop" ELSE "sleep"
       /\ ListedFor(ps)
  /\ pi' = 1
  /\ UNCHANGED <<resource_map_, toplevel_res_id, fs, nodes, ni, rs, calls,
                 map0, seenIds, createCalls, registerCalls, topCalls>>

\* variant: the target's resource is registered again right after the bind
PodStepLazyRegister ==
  /\ pc = "pod_loop"
  /\ calls' = IF nodes # <<>>
                THEN calls \o <<Call("Bind", NoId, pods[pi], nodes[1][2]),
                                Call("Register",
                                     ResourceIDFromString(nodes[1][1]), "", "")>>
                ELSE calls
  /\ pc' = IF pi < Len(pods) THEN "pod_loop" ELSE "sleep"
  /\ pi' = pi + 1
  /\ UNCHANGED <<resource_map_, toplevel_res_id, fs, nodes, ni, rs, pods,
                 map0, seenIds, createCalls, registerCalls, topCalls>>
  /\ IF nodes # <<>> THEN BoundFor(pods[pi]) ELSE UNCHANGED watchVars

\* variant: the emptiness test on nodes is missing; reading nodes[0] of an
\* empty vector then yields an arbitrary address
PodStepNoGuard ==
  /\ pc = "pod_loop"
  /\ \E a \in (IF nodes # <<>> THEN {nodes[1][2]} ELSE Addrs) :
       calls' = Append(calls, Call("Bind", NoId, pods[pi], a))
  /\ pc' = IF pi < Len(pods) THEN "pod_loop" ELSE "sleep"
  /\ pi' = pi + 1
  /\ UNCHANGED <<resource_map_, toplevel_res_id, fs, nodes, ni, rs, pods,
                 map0, seenIds, createCalls, registerCalls, topCalls>>
  /\ BoundFor(pods[pi])

\* variant: the pod is bound to the last node of the list
PodStepLastNode ==
  /\ pc = "pod_loop"
  /\ calls' = IF nodes # <<>>
                THEN Append(calls, Call("Bind", NoId, pods[pi],
                                        nodes[Len(nodes)][2]))
                ELSE calls
  /\ pc' = IF pi < Len(pods) THEN "pod_loop" ELSE "sleep"
  /\ pi' = pi + 1
  /\ UNCHANGED <<resource_map_, toplevel_res_id, fs, nodes, ni, rs, pods,
                 map0, seenIds, createCalls, registerCalls, topCalls>>
  /\ IF nodes # <<>> THEN BoundFor(pods[pi]) ELSE UNCHANGED watchVars

\* variant: a pod that already has a binding call is not bound again
PodStepSkipBound ==
  /\ pc = "pod_loop"
  /\ LET skip == pods[pi] = watch /\ watchBinds > 0 IN
       /\ calls' = IF nodes # <<>> /\ ~skip
                     THEN Append(calls,
                                 Call("Bind", NoId, pods[pi], nodes[1][2]))
                     ELSE calls
       /\ IF nodes # <<>> /\ ~skip THEN BoundFor(pods[pi])
                                    ELSE UNCHANGED watchVars
  /\ pc' = IF pi < Len(pods) THEN "pod_loop" ELSE "sleep"
  /\ pi' = pi + 1
  /\ UNCHANGED <<resource_map_, toplevel_res_id, fs, nodes, ni, rs, pods,
                 map0, seenIds, createCalls, registerCalls, topCalls>>

\* loop body for one pod: bind it to the first node when there is one
PodStep ==
  /\ pc = "pod_loop"
  /\ calls' = IF nodes # <<>>
                THEN Append(calls, Call("Bind", NoId, pods[pi], nodes[1][2]))
                ELSE calls
  /\ pc' = IF pi < Len(pods) THEN "pod_loop" ELSE "sleep"
  /\ pi' = pi + 1
  /\ UNCHANGED <<resource_map_, toplevel_res_id, fs, nodes, ni, rs, pods,
                 map0, seenIds, createCalls, registerCalls, topCalls>>
  /\ IF nodes # <<>> THEN BoundFor(pods[pi]) ELSE UNCHANGED watchVars

\* variant: entries of machines missing from this cycle's node list are
\* dropped before the sleep
SleepPrune ==
  /\ pc = "sleep"
  /\ pc' = "poll_nodes"
  /\ LET keep == {k \in DOMAIN resource_map_ :
                    \/ resource_map_[k].type # "RESOURCE_MACHINE"
                    \/ \E i \in 1..Len(nodes) :
                         ResourceIDFromString(nodes[i][1]) = k}
     IN /\ resource_map_' = [k \in keep |-> resource_map_[k]]
        /\ map0' = [k \in keep |-> resource_map_[k]]
  /\ nodes' = <<>>
  /\ pods' = <<>>
  /\ ni' = 1
  /\ pi' = 1
  /\ calls' = <<>>
  /\ UNCHANGED <<toplevel_res_id, fs, rs, seenIds,
                 createCalls, registerCalls, topCalls>>
  /\ UNCHANGED watchVars

\* variant: the loop ends after the sleep
SleepExit ==
  /\ pc = "sleep"
  /\ pc' = "done"
  /\ nodes' = <<>>
  /\ pods' = <<>>
  /\ ni' = 1
  /\ pi' = 1
  /\ calls' = <<>>
  /\ map0' = resource_map_
  /\ UNCHANGED <<resource_map_, toplevel_res_id, fs, rs, seenIds,
                 createCalls, registerCalls, topCalls>>
  /\ UNCHANGED watchVars

\* sleep(10); the body's locals end and the next iteration starts
Sleep ==
  /\ pc = "sleep"
  /\ pc' = "poll_nodes"
  /\ nodes' = <<>>
  /\ pods' = <<>>
  /\ ni' = 1
  /\ pi' = 1
  /\ calls' = <<>>
  /\ map0' = resource_map_
  /\ UNCHANGED <<resource_map_, toplevel_res_id, fs, rs, seenIds,
                 createCalls, registerCalls, topCalls>>
  /\ UNCHANGED watchVars

Next ==
  \/ Setup
  \/ PollNodes
  \/ NodeKnown
  \/ NodeNew
  \/ Register
  \/ PollPods
  \/ PodStep
  \/ Sleep

Spec == Init /\ [][Next]_vars

\* the loop under the assumption that the process keeps running: every
\* inventory call and the sleep return
SpecLive == Init /\ [][Next]_vars /\ WF_vars(Next)

\* the same loop with the bindings of one pod counted
SpecWatch == InitWatch /\ [][Next]_vars

(* ------------- direct calls of the two creation functions ------------- *)
\* a direct call is made between two cycles on a catalog built by main alone
\* (the coordinator and registered machines)
DirectCallPoint ==
  /\ pc = "poll_nodes"
  /\ \A k \in DOMAIN resource_map_ : k = toplevel_res_id \/ k \in fs

\* CreateResourceForNode called with an arbitrary identifier, bypassing the
\* loop's ContainsKey test
CallCreateResourceForNode ==
  /\ DirectCallPoint
  /\ \E node_id \in RIDs :
       LET r == CreateResourceForNode(resource_map_, node_id, toplevel_res_id)
       IN /\ resource_map_' = r.map
          /\ map0' = r.map
          /\ createCalls' = Bump(createCalls, node_id)
          /\ pc' = IF r.ok THEN pc ELSE "aborted"
  /\ UNCHANGED <<toplevel_res_id, fs, nodes, ni, rs, pods, pi, calls,
                 seenIds, registerCalls, topCalls>>
  /\ UNCHANGED watchVars

\* CreateTopLevelResource called a second time
CallCreateTopLevelResource ==
  /\ DirectCallPoint
  /\ \E res_id \in GenerateResourceID :
       LET r == CreateTopLevelResource(resource_map_, res_id)
       IN /\ resource_map_' = r.map
          /\ map0' = r.map
          /\ topCalls' = Bump(topCalls, res_id)
          /\ pc' = IF r.ok THEN pc ELSE "aborted"
  /\ UNCHANGED <<toplevel_res_id, fs, nodes, ni, rs, pods, pi, calls,
                 seenIds, createCalls, registerCalls>>
  /\ UNCHANGED watchVars

NextCollide ==
  \/ Next
  \/ CallCreateResourceForNode
  \/ CallCreateTopLevelResource

\* the loop together with direct calls of the creation functions
SpecCollide == Init /\ [][NextCollide]_vars

(* --------------------------- type invariant --------------------------- *)
TypeOK ==
  /\ pc \in {"setup", "poll_nodes", "node_loop", "register", "poll_pods",
             "pod_loop", "sleep", "aborted"}
  /\ DOMAIN resource_map_ \subseteq RIDs
  /\ toplevel_res_id \in RIDs \cup {NoId}
  /\ fs \subseteq RIDs
  /\ NodePairs \subseteq IdStrings \X Addrs
  /\ nodes \in SeqUpTo(NodePairs, MaxNodes)
  /\ ni \in 1..(MaxNodes + 1)
  /\ rs \in RIDs \cup {NoId}
  /\ pods \in SeqUpTo(Pods, MaxPods)
  /\ pi \in 1..(MaxPods + 1)
  /\ seenIds \subseteq RIDs
  /\ DOMAIN map0 \subseteq DOMAIN resource_map_
  /\ watch \in Pods \cup {NoPod}
  /\ watchCycles \in 0..CountCap
  /\ watchOccs \in 0..CountCap
  /\ watchBinds \in 0..CountCap

(* ------------------------- derived quantities ------------------------- *)
Machines == {k \in DOMAIN resource_map_ :
               resource_map_[k].type = "RESOURCE_MACHINE"}
Coordinators == {k \in DOMAIN resource_map_ :
                   resource_map_[k].type = "RESOURCE_COORDINATOR"}
\* identifier the parent_id string of entry k denotes
ParentOf(m, k) == ResourceIDFromString(m[k].parent_id)
\* the node phase of the current cycle is over (or no cycle is running)
NodePhaseDone == pc \in {"poll_nodes", "poll_pods", "pod_loop", "sleep"}
CallsOf(op) == SelectSeq(calls, LAMBDA c : c.op = op)
\* identifiers of this cycle's node list
NodeIds == {ResourceIDFromString(nodes[i][1]) : i \in 1..Len(nodes)}

(* ------------------------------- C1 ----------------------------------- *)
\* C1 (as stated): once the node phase of a cycle is over, every identifier
\* that has appeared in a node list is a catalog key and has had exactly one
\* CreateResourceForNode call and exactly one RegisterResource call.
C1_Original ==
  NodePhaseDone =>
    \A id \in seenIds :
      /\ id \in DOMAIN resource_map_
      /\ createCalls[id] = 1
      /\ registerCalls[id] = 1

\* C1 (amended): once the node phase of a cycle is over, every identifier
\* that has appeared in a node list is a catalog key; if it differs from the
\* coordinator's identifier it has had exactly one CreateResourceForNode call
\* and exactly one RegisterResource call, and if it equals the coordinator's
\* identifier it has had none; no identifier ever has more than one of either.
C1_IdempotentDiscovery ==
  /\ \A id \in RIDs : createCalls[id] <= 1 /\ registerCalls[id] <= 1
  /\ NodePhaseDone =>
       \A id \in seenIds :
         /\ id \in DOMAIN resource_map_
         /\ createCalls[id] = (IF id = toplevel_res_id THEN 0 ELSE 1)
         /\ registerCalls[id] = (IF id = toplevel_res_id THEN 0 ELSE 1)

\* a later cycle lists again, under another spelling, a node created earlier
C1_Witness ==
  /\ pc = "sleep"
  /\ \E i \in 1..Len(nodes) :
       LET id == ResourceIDFromString(nodes[i][1]) IN
         /\ id \in DOMAIN map0
         /\ id # toplevel_res_id
         /\ nodes[i][1] # to_string(id)
         /\ createCalls[id] = 1

(* ------------------------------- C2 ----------------------------------- *)
\* C2: within one cycle no RegisterResource call comes after a
\* BindPodToNode call: all registrations precede the first binding.
C2_RegistrationBeforeBinding ==
  \A i, j \in 1..Len(calls) :
    (i < j /\ calls[i].op = "Bind") => calls[j].op # "Register"

\* a cycle that both registered a new node and bound a pod
C2_Witness ==
  /\ pc = "sleep"
  /\ CallsOf("Register") # <<>>
  /\ CallsOf("Bind") # <<>>

(* ------------------------------- C3 ----------------------------------- *)
\* C3: after startup the catalog holds exactly one COORDINATOR entry (the
\* one toplevel_res_id names) and CreateTopLevelResource has been called
\* exactly once; before startup completes there is no entry and no
\* CreateResourceForNode call at all.
C3_SingleCoordinator ==
  /\ pc = "setup" =>
       /\ DOMAIN resource_map_ = {}
       /\ \A id \in RIDs : topCalls[id] = 0 /\ createCalls[id] = 0
  /\ pc # "setup" =>
       /\ Cardinality(Coordinators) = 1
       /\ Coordinators = {toplevel_res_id}
       /\ \E id \in RIDs :
            /\ topCalls[id] = 1
            /\ \A other \in RIDs \ {id} : topCalls[other] = 0

\* machines have been added next to the coordinator
C3_Witness ==
  /\ pc = "sleep"
  /\ Cardinality(Machines) >= 2
  /\ toplevel_res_id \in seenIds

(* ------------------------------- C4 ----------------------------------- *)
\* C4: every MACHINE entry's parent_id denotes a catalog entry of type
\* COORDINATOR, and whenever a MACHINE entry is added its parent is a
\* COORDINATOR entry of the catalog as it was before the addition.
C4_TreeValidity ==
  /\ [](\A k \in Machines : ParentOf(resource_map_, k) \in Coordinators)
  /\ [][\A k \in Machines' \ Machines :
          /\ ParentOf(resource_map_', k) \in Coordinators
          /\ ParentOf(resource_map_', k) # k]_vars

\* a machine entry whose parent is the coordinator
C4_Witness ==
  \E k \in Machines :
    /\ ParentOf(resource_map_, k) = toplevel_res_id
    /\ k \in fs

(* ------------------------------- C5 ----------------------------------- *)
\* C5: in a cycle whose node list is empty no BindPodToNode call is issued.
C5_NoBindingWithoutNode ==
  nodes = <<>> => CallsOf("Bind") = <<>>

\* the pod loop has run over a non-empty pod list with an empty node list
\* while the catalog holds machines from earlier cycles
C5_Witness ==
  /\ pc = "sleep"
  /\ nodes = <<>>
  /\ pods # <<>>
  /\ Machines # {}

(* ------------------------------- C6 ----------------------------------- *)
\* number of pods the pod loop of the current cycle has processed
PodsDone == IF pc \in {"pod_loop", "sleep"} THEN pi - 1 ELSE 0

\* C6: in a cycle whose node list is non-empty the BindPodToNode calls
\* issued so far are exactly one per processed pod, in list order, each with
\* the address of the first element of the node list; at the sleep every pod
\* of the list has been processed.
C6_PlaceholderPlacement ==
  nodes # <<>> =>
    LET binds == CallsOf("Bind") IN
      /\ Len(binds) = PodsDone
      /\ \A i \in 1..Len(binds) :
           binds[i] = Call("Bind", NoId, pods[i], nodes[1][2])
      /\ pc = "sleep" => PodsDone = Len(pods)

\* two pods bound while the first of two nodes with different addresses was
\* already known at cycle start
C6_Witness ==
  /\ pc = "sleep"
  /\ Len(pods) >= 2
  /\ Len(nodes) >= 2
  /\ nodes[1][2] # nodes[2][2]
  /\ ResourceIDFromString(nodes[1][1]) \in DOMAIN map0
  /\ Len(CallsOf("Bind")) = Len(pods)

(* ------------------------------- C7 ----------------------------------- *)
\* identifiers of this cycle's node list that were absent at cycle start
NewIds == NodeIds \ DOMAIN map0

\* C7: after the node phase of a cycle the catalog is the catalog of the
\* cycle start plus one entry per new identifier, each of type MACHINE, state
\* IDLE and parent_id the coordinator's; the cycle has issued one
\* CreateResourceForNode and one RegisterResource call per new identifier,
\* each RegisterResource call directly after the creation of its entry.
C7_NewNodeMaterialisation ==
  pc \in {"poll_pods", "pod_loop", "sleep"} =>
    /\ DOMAIN resource_map_ = DOMAIN map0 \cup NewIds
    /\ Cardinality(DOMAIN resource_map_) =
         Cardinality(DOMAIN map0) + Cardinality(NewIds)
    /\ \A k \in DOMAIN map0 : resource_map_[k] = map0[k]
    /\ \A k \in NewIds :
         /\ resource_map_[k].type = "RESOURCE_MACHINE"
         /\ resource_map_[k].state = "RESOURCE_IDLE"
         /\ resource_map_[k].parent_id = to_string(toplevel_res_id)
         /\ resource_map_[k].uuid = to_string(k)
    /\ Len(CallsOf("Register")) = Cardinality(NewIds)
    /\ Len(CallsOf("Create")) = Cardinality(NewIds)
    /\ {calls[j].id : j \in {n \in 1..Len(calls) : calls[n].op = "Register"}}
         = NewIds
    /\ \A j \in 1..Len(calls) :
         /\ calls[j].op = "Create" =>
              /\ j < Len(calls)
              /\ calls[j + 1] = Call("Register", calls[j].id, "", "")
         /\ calls[j].op = "Register" =>
              /\ j > 1
              /\ calls[j - 1] = Call("Create", calls[j].id, "", "")

\* a cycle that found two new identifiers
C7_Witness ==
  /\ pc = "poll_pods"
  /\ Cardinality(NewIds) >= 2
  /\ Cardinality(DOMAIN map0) >= 1

(* ------------------------------- C8 ----------------------------------- *)
\* C8: a cycle with an empty node list and an empty pod list reaches the
\* sleep with the catalog of the cycle start and without any call issued;
\* an empty node list leads to the pod poll, an empty pod list to the sleep
\* and the sleep to the next cycle.
C8_EmptyCycleNoOp ==
  /\ []((pc = "sleep" /\ nodes = <<>> /\ pods = <<>>) =>
          (resource_map_ = map0 /\ calls = <<>>))
  /\ [][/\ (pc = "poll_nodes" /\ nodes' = <<>>) => pc' = "poll_pods"
        /\ (pc = "poll_pods" /\ nodes = <<>> /\ pods' = <<>>) => pc' = "sleep"
        /\ (pc = "sleep" /\ nodes = <<>> /\ pods = <<>>) =>
             (pc' = "poll_nodes" /\ resource_map_' = resource_map_
              /\ fs' = fs)]_vars

\* the first cycle was empty: the catalog is still just the coordinator
C8_Witness ==
  /\ pc = "sleep"
  /\ nodes = <<>>
  /\ pods = <<>>
  /\ DOMAIN resource_map_ = {toplevel_res_id}
  /\ fs = {}

(* ------------------------------- C9 ----------------------------------- *)
\* C9: no step removes a catalog key or changes the value stored under an
\* existing key.
C9_AppendOnlyCatalog ==
  [][\A k \in DOMAIN resource_map_ :
       /\ k \in DOMAIN resource_map_'
       /\ resource_map_'[k] = resource_map_[k]]_vars

\* a machine known from an earlier cycle is missing from a non-empty node
\* list and is still in the catalog at the end of the cycle
C9_Witness ==
  /\ pc = "sleep"
  /\ nodes # <<>>
  /\ \E k \in Machines : k \in DOMAIN map0 /\ k \notin NodeIds

(* ------------------------------- C10 ---------------------------------- *)
\* C10: a call of CreateResourceForNode or CreateTopLevelResource whose
\* identifier is already a catalog key leaves the catalog as it is and takes
\* the process to the aborted state, and no step leaves the aborted state.
C10_FatalCollision ==
  [][/\ \A id \in DOMAIN resource_map_ :
          (createCalls'[id] # createCalls[id] \/ topCalls'[id] # topCalls[id])
            => (resource_map_' = resource_map_ /\ pc' = "aborted")
     /\ pc # "aborted"]_vars

\* the process aborted on a second creation of an existing machine entry
C10_Witness ==
  /\ pc = "aborted"
  /\ \E id \in Machines : createCalls[id] = 2 /\ id \in fs

(* ------------------------------- C11 ---------------------------------- *)
\* the current cycle has issued all its calls (or no cycle is running)
CycleDone == pc \in {"sleep", "poll_nodes"}

\* C11 (as stated): at the end of every cycle the counted pod has received
\* exactly as many BindPodToNode calls as there were cycles with a non-empty
\* node list whose pod list named it.
C11_Original ==
  CycleDone => watchBinds = watchCycles

\* C11 (amended): at the end of every cycle the counted pod has received
\* exactly one BindPodToNode call per occurrence in the pod lists of the
\* cycles with a non-empty node list, hence at least one per such cycle; and
\* every occurrence in such a cycle leads to a call even when the pod was
\* bound before.
C11_UnconditionalRebinding ==
  /\ CycleDone =>
       /\ watchBinds = watchOccs
       /\ watchBinds >= watchCycles
  /\ (pc = "sleep" /\ nodes # <<>>) =>
       Occurrences(pods, watch) =
         Len(SelectSeq(calls, LAMBDA c : c.op = "Bind" /\ c.pod = watch))

\* the counted pod, bound in an earlier cycle, has been bound again
C11_Witness ==
  /\ pc = "sleep"
  /\ nodes # <<>>
  /\ Occurrences(pods, watch) = 1
  /\ watchCycles = 2
  /\ watchBinds = 2

(* ------------------------------- C12 ---------------------------------- *)
\* C12: whenever the pod loop is running with a non-empty node list, and
\* whenever a BindPodToNode call has been issued in the current cycle, the
\* identifier of the first node of the list is a catalog key, and if its
\* entry is a MACHINE the scheduler has been handed it.
C12_BindingTargetKnown ==
  (nodes # <<>> /\ (pc = "pod_loop" \/ CallsOf("Bind") # <<>>)) =>
    LET target == ResourceIDFromString(nodes[1][1]) IN
      /\ target \in DOMAIN resource_map_
      /\ resource_map_[target].type = "RESOURCE_MACHINE" => target \in fs

\* a pod has been bound to a node discovered in the same cycle
C12_Witness ==
  /\ pc = "sleep"
  /\ CallsOf("Bind") # <<>>
  /\ ResourceIDFromString(nodes[1][1]) \in NewIds
  /\ ResourceIDFromString(nodes[1][1]) \in fs

(* ------------------------------- C13 ---------------------------------- *)
\* C13: after startup a step changes the catalog only by adding, in the node
\* loop, one MACHINE entry for the current node's identifier, which was not a
\* key; the step for a node whose identifier is a key, every step of the pod
\* phase and the sleep leave the catalog and the scheduler's resources as
\* they are.
C13_CatalogFrame ==
  [][pc # "setup" =>
       /\ resource_map_' # resource_map_ =>
            /\ pc = "node_loop"
            /\ LET rid == ResourceIDFromString(nodes[ni][1]) IN
                 /\ rid \notin DOMAIN resource_map_
                 /\ DOMAIN resource_map_' = DOMAIN resource_map_ \cup {rid}
                 /\ resource_map_'[rid].type = "RESOURCE_MACHINE"
                 /\ \A k \in DOMAIN resource_map_ :
                      resource_map_'[k] = resource_map_[k]
       /\ (/\ pc = "node_loop"
           /\ ResourceIDFromString(nodes[ni][1]) \in DOMAIN resource_map_) =>
            (resource_map_' = resource_map_ /\ fs' = fs)
       /\ pc \in {"poll_pods", "pod_loop", "sleep"} =>
            (resource_map_' = resource_map_ /\ fs' = fs)]_vars

\* a cycle that listed only known nodes and bound pods, catalog as at its
\* start
C13_Witness ==
  /\ pc = "sleep"
  /\ nodes # <<>>
  /\ NewIds = {}
  /\ CallsOf("Bind") # <<>>
  /\ Machines # {}
  /\ resource_map_ = map0

(* ------------------------------- C14 ---------------------------------- *)
\* C14: the positions of main follow each other in the order node poll, node
\* loop, pod poll, pod loop, sleep, node poll; the node list does not change
\* between its poll and the sleep nor the pod list during its loop; the pod
\* poll is reached only after the last node and the sleep only after the last
\* pod; a node poll starts only from setup or from the sleep, with no call of
\* the earlier cycle left.
C14_SequentialCycles ==
  [][/\ pc = "poll_nodes" => pc' \in {"node_loop", "poll_pods"}
     /\ pc = "node_loop" =>
          (pc' \in {"node_loop", "register", "poll_pods"} /\ nodes' = nodes)
     /\ pc = "register" =>
          (pc' \in {"node_loop", "poll_pods"} /\ nodes' = nodes)
     /\ (pc \in {"node_loop", "register"} /\ pc' = "poll_pods") =>
          ni' = Len(nodes) + 1
     /\ pc = "poll_pods" => (pc' \in {"pod_loop", "sleep"} /\ nodes' = nodes)
     /\ pc = "pod_loop" =>
          (pc' \in {"pod_loop", "sleep"} /\ nodes' = nodes /\ pods' = pods)
     /\ pc' = "sleep" => pi' = Len(pods') + 1
     /\ pc = "sleep" => pc' = "poll_nodes"
     /\ pc' = "poll_nodes" =>
          (pc \in {"setup", "sleep"} /\ calls' = <<>> /\ nodes' = <<>>
           /\ pods' = <<>>)]_vars

\* a cycle that registered a node and bound two pods has reached its sleep
C14_Witness ==
  /\ pc = "sleep"
  /\ Len(CallsOf("Register")) >= 1
  /\ Len(CallsOf("Bind")) >= 2
  /\ DOMAIN map0 # {toplevel_res_id}

(* ------------------------------- C15 ---------------------------------- *)
\* C15: after setup the process is never in a state without a next step
\* (never aborted), and, the process kept running, a new poll cycle starts
\* again and again.
C15_LoopNeverStops ==
  /\ [](pc # "aborted" /\ ENABLED Next)
  /\ []<>(pc = "poll_nodes")

\* a later cycle is about to start: the catalog holds machines of earlier
\* cycles
C15_Witness ==
  /\ pc = "poll_nodes"
  /\ Cardinality(Machines) >= 2
  /\ Machines = fs

(* ------------------------------- C16 ---------------------------------- *)
\* C16: the process is never aborted; CreateResourceForNode is only ever
\* called with an identifier that is not a catalog key, hence at most once
\* per identifier; for the coordinator's identifier it is never called, nor
\* is RegisterResource, and the coordinator's entry keeps its type.
C16_DuplicateCheckUnreachable ==
  /\ [](/\ pc # "aborted"
        /\ \A id \in RIDs : createCalls[id] <= 1
        /\ pc # "setup" =>
             /\ createCalls[toplevel_res_id] = 0
             /\ registerCalls[toplevel_res_id] = 0
             /\ toplevel_res_id \notin fs
             /\ resource_map_[toplevel_res_id].type = "RESOURCE_COORDINATOR")
  /\ [][\A id \in RIDs :
          createCalls'[id] # createCalls[id] =>
            id \notin DOMAIN resource_map_]_vars

\* one node list named a new identifier twice and the coordinator's
\* identifier has been listed as well
C16_Witness ==
  /\ pc = "poll_pods"
  /\ Len(nodes) = 2
  /\ ResourceIDFromString(nodes[1][1]) = ResourceIDFromString(nodes[2][1])
  /\ NodeIds = NewIds
  /\ toplevel_res_id \in seenIds

(* ------------------------------- C17 ---------------------------------- *)
\* C17: every resource the scheduler has been handed is a MACHINE entry of
\* the catalog; at the pod poll and at the sleep the two sets are equal; in
\* every state at most one MACHINE entry has not been handed over, and then
\* it is the entry just created, about to be registered.
C17_CatalogSchedulerAgreement ==
  /\ fs \subseteq Machines
  /\ pc \in {"poll_pods", "sleep"} => fs = Machines
  /\ Cardinality(Machines \ fs) <= 1
  /\ Machines \ fs # {} => (pc = "register" /\ Machines \ fs = {rs})

\* a new entry waits for its registration while another machine is already
\* registered
C17_Witness ==
  /\ pc = "register"
  /\ Machines \ fs = {rs}
  /\ fs # {}

====
